---- MODULE Spec2Model ----
(***************************************************************************)
(* Model of the metric evaluation engine of explainiverse-studio           *)
(* (apps/api/app/evaluation.py): _attributions, the explainer transform,   *)
(* the top-k selection, _predict_signal, the perturbed matrices and the    *)
(* metric dispatch of compute_metric_score.                                *)
(*                                                                         *)
(* Numbers are exact rationals <<numerator, denominator>> in lowest terms  *)
(* with a positive denominator.  IEEE-754 rounding is outside the model.   *)
(***************************************************************************)
EXTENDS Integers, Sequences, FiniteSets, TLC

(***************************************************************************)
(* Bounds of the checked inputs.                                           *)
(***************************************************************************)
MaxFeat == 4
MaxRows == 2
MaxVal == 1

(***************************************************************************)
(* Exact rational arithmetic.                                              *)
(***************************************************************************)
IAbs(i) == IF i < 0 THEN -i ELSE i

RECURSIVE Gcd(_, _)
Gcd(a, b) == IF b = 0 THEN a ELSE Gcd(b, a % b)

Rat(n, d) ==
    IF n = 0 THEN <<0, 1>>
    ELSE IF d = 1 THEN <<n, 1>>
    ELSE LET s == IF d < 0 THEN -1 ELSE 1
             g == Gcd(IAbs(n), IAbs(d))
         IN  <<(s * n) \div g, (s * d) \div g>>

RInt(i) == <<i, 1>>
RZero == <<0, 1>>
ROne == <<1, 1>>
Lcm(a, b) == (a \div Gcd(a, b)) * b
RAdd(x, y) ==
    IF x[2] = y[2] THEN Rat(x[1] + y[1], x[2])
    ELSE LET l == Lcm(x[2], y[2])
         IN  Rat(x[1] * (l \div x[2]) + y[1] * (l \div y[2]), l)
RNeg(x) == <<-x[1], x[2]>>
RSub(x, y) == RAdd(x, RNeg(y))
RMul(x, y) ==
    IF x[1] = 0 \/ y[1] = 0 THEN <<0, 1>>
    ELSE IF x[2] = 1 /\ y[2] = 1 THEN <<x[1] * y[1], 1>>
    ELSE LET g1 == Gcd(IAbs(x[1]), y[2])
             g2 == Gcd(IAbs(y[1]), x[2])
         IN  Rat((x[1] \div g1) * (y[1] \div g2), (x[2] \div g2) * (y[2] \div g1))
RInv(x) == IF x[1] < 0 THEN <<-x[2], -x[1]>> ELSE <<x[2], x[1]>>
RDiv(x, y) == RMul(x, RInv(y))
RLe(x, y) == IF x[2] = y[2] THEN x[1] <= y[1] ELSE RSub(x, y)[1] <= 0
RLt(x, y) == IF x[2] = y[2] THEN x[1] < y[1] ELSE RSub(x, y)[1] < 0
RAbs(x) == <<IAbs(x[1]), x[2]>>
RMax(x, y) == IF RLe(x, y) THEN y ELSE x
RMin(x, y) == IF RLe(x, y) THEN x ELSE y

RECURSIVE RSumTo(_, _)
RSumTo(s, n) == IF n = 0 THEN RZero ELSE RAdd(RSumTo(s, n - 1), s[n])

\* np.sum / ndarray.sum of a vector
RSum(s) == RSumTo(s, Len(s))

\* np.mean of a non-empty vector
RMean(s) == RDiv(RSum(s), RInt(Len(s)))

\* np.abs, elementwise
VAbs(s) == [i \in 1..Len(s) |-> RAbs(s[i])]

\* population variance, the square of np.std
RVar(s) ==
    LET m == RMean(s)
    IN  RMean([i \in 1..Len(s) |-> RMul(RSub(s[i], m), RSub(s[i], m))])

\* sum of the products of the deviations of two vectors of the same length
RCov(s, t) ==
    LET ms == RMean(s)
        mt == RMean(t)
    IN  RMean([i \in 1..Len(s) |-> RMul(RSub(s[i], ms), RSub(t[i], mt))])

(***************************************************************************)
(* Integer roots, defined where the root is an integer.                    *)
(***************************************************************************)
RECURSIVE IFloorSqrt(_)
IFloorSqrt(m) ==
    IF m < 2 THEN m
    ELSE LET s == 2 * IFloorSqrt(m \div 4)
         IN  IF (s + 1) * (s + 1) <= m THEN s + 1 ELSE s

IsSquare(m) == IFloorSqrt(m) * IFloorSqrt(m) = m
ISqrt(m) == IFloorSqrt(m)
IsFourth(m) == IsSquare(m) /\ IsSquare(ISqrt(m))
IFourthRoot(m) == ISqrt(ISqrt(m))

RECURSIVE LcmDen(_, _)
LcmDen(s, n) ==
    IF n = 0 THEN 1
    ELSE LET l == LcmDen(s, n - 1)
         IN  (l * s[n][2]) \div Gcd(l, s[n][2])

RECURSIVE GcdNum(_, _)
GcdNum(s, n) == IF n = 0 THEN 0 ELSE Gcd(GcdNum(s, n - 1), IAbs(s[n][1]))

\* The primitive integer vector proportional to a vector of non-negative
\* rationals that is not all zero.
Primitive(s) ==
    LET l == LcmDen(s, Len(s))
        ints == [i \in 1..Len(s) |-> <<(s[i][1] * l) \div s[i][2], 1>>]
        g == GcdNum(ints, Len(s))
    IN  [i \in 1..Len(s) |-> ints[i][1] \div g]

(***************************************************************************)
(* The trained model.  The engine sees it only through hasattr probes and  *)
(* its prediction operations:                                              *)
(*   has_importances / feature_importances_   per-feature importances      *)
(*   has_coef / coef_ndim / coef_             coefficients, a list of rows *)
(*                                            (one row when coef_ndim = 1) *)
(*   has_proba                                predict_proba is present     *)
(*   classifier, w, b                         what predict computes        *)
(***************************************************************************)

\* The linear score the fitted estimator computes for one row.
Decision(model, row) ==
    RAdd(RInt(model.b),
         RSum([j \in 1..Len(row) |-> RMul(RInt(model.w[j]), row[j])]))

\* model.predict for one row: a class label of a classifier, the value of a
\* regressor.
Predict(model, row) ==
    IF model.classifier
    THEN (IF RLt(RZero, Decision(model, row)) THEN ROne ELSE RZero)
    ELSE Decision(model, row)

\* model.predict_proba for one row: the probabilities of the two classes.
PredictProba(model, row) ==
    LET p == RMax(RZero, RMin(ROne, RAdd(<<1, 2>>, RDiv(Decision(model, row), RInt(8)))))
    IN  <<RSub(ROne, p), p>>

PredictSignalProba(model, X) ==
    [r \in 1..Len(X) |->
        LET probs == PredictProba(model, X[r]) IN RMax(probs[1], probs[2])]

PredictSignalPoint(model, X) ==
    [r \in 1..Len(X) |-> Predict(model, X[r])]

\* _predict_signal: one scalar per row.
PredictSignal(model, X, task_type) ==
    IF task_type = "classification" /\ model.has_proba
    THEN PredictSignalProba(model, X)
    ELSE PredictSignalPoint(model, X)

(***************************************************************************)
(* _attributions                                                           *)
(***************************************************************************)
IntsToRats(v) == [i \in 1..Len(v) |-> RInt(v[i])]

\* np.mean(np.abs(coef), axis=0) of a two-dimensional coef
CoefColumnMeanAbs(coef) ==
    [j \in 1..Len(coef[1]) |->
        RMean([r \in 1..Len(coef) |-> RAbs(RInt(coef[r][j]))])]

\* RawValues with the two capability tests in the other order.
RawValuesCoefFirst(model, n) ==
    IF model.has_coef
    THEN (IF model.coef_ndim > 1
          THEN CoefColumnMeanAbs(model.coef_)
          ELSE VAbs(IntsToRats(model.coef_[1])))
    ELSE IF model.has_importances THEN IntsToRats(model.feature_importances_)
         ELSE [i \in 1..n |-> ROne]

\* The raw vector of lines 18-24.
RawValues(model, n) ==
    IF model.has_importances THEN IntsToRats(model.feature_importances_)
    ELSE IF model.has_coef
         THEN (IF model.coef_ndim > 1
               THEN CoefColumnMeanAbs(model.coef_)
               ELSE VAbs(IntsToRats(model.coef_[1])))
         ELSE [i \in 1..n |-> ROne]

\* np.resize(values, n): truncate, or repeat cyclically; zeros when empty.
Resize(values, n) ==
    IF Len(values) = 0 THEN [i \in 1..n |-> RZero]
    ELSE [i \in 1..n |-> values[((i - 1) % Len(values)) + 1]]

Reconciled(values, n) == IF Len(values) # n THEN Resize(values, n) ELSE values

\* Normalized without the division by the sum.
NormalizedUndivided(values, n) ==
    IF RLt(RZero, RSum(VAbs(values)))
    THEN [i \in 1..n |-> VAbs(values)[i]]
    ELSE [i \in 1..n |-> Rat(1, n)]

\* Lines 29-31: absolute value, then divide by the sum or fall back to uniform.
Normalized(values, n) ==
    LET v == VAbs(values)
        total == RSum(v)
    IN  IF RLt(RZero, total)
        THEN [i \in 1..n |-> RDiv(v[i], total)]
        ELSE [i \in 1..n |-> Rat(1, n)]

Attributions(model, n) == Normalized(Reconciled(RawValues(model, n), n), n)

(***************************************************************************)
(* Explainer transform, lines 40-46.  np.sqrt and np.power(., 1.25) are    *)
(* applied to the primitive integer vector proportional to base_attr: the  *)
(* common factor cancels in the division by attr.sum() of line 46.  The    *)
(* inputs are those for which the roots are integers (Representable).      *)
(***************************************************************************)
Representable(base_attr, explainer) ==
    LET prim == Primitive(base_attr)
    IN  CASE explainer = "lime" -> \A i \in 1..Len(prim) : IsSquare(prim[i])
          [] explainer = "treeshap" -> \A i \in 1..Len(prim) : IsFourth(prim[i])
          [] OTHER -> TRUE

\* Transformed with the square root applied for every explainer but treeshap.
TransformedRootByDefault(base_attr, explainer) ==
    LET prim == Primitive(base_attr)
    IN  IF explainer = "treeshap"
        THEN [i \in 1..Len(prim) |-> RInt(prim[i] * IFourthRoot(prim[i]))]
        ELSE [i \in 1..Len(prim) |-> RInt(IFloorSqrt(prim[i]))]

Transformed(base_attr, explainer) ==
    LET prim == Primitive(base_attr)
    IN  CASE explainer = "lime" ->
               [i \in 1..Len(prim) |-> RInt(ISqrt(prim[i]))]
          [] explainer = "treeshap" ->
               [i \in 1..Len(prim) |-> RInt(prim[i] * IFourthRoot(prim[i]))]
          [] OTHER -> base_attr

\* attr = attr / attr.sum()
EffectiveAttr(base_attr, explainer) ==
    LET t == Transformed(base_attr, explainer)
        total == RSum(t)
    IN  [i \in 1..Len(t) |-> RDiv(t[i], total)]

(***************************************************************************)
(* Top-k selection, lines 48-49.  Feature indices are 0-based as in numpy. *)
(***************************************************************************)
\* TopKCount without the cap of 3.
TopKCountUncapped(n) == IF n < 1 THEN 1 ELSE n

TopKCount(n) ==
    LET m == IF 3 < n THEN 3 ELSE n
    IN  IF m < 1 THEN 1 ELSE m

Minimal(attr, left) ==
    {i \in left : \A j \in left : RLe(attr[i + 1], attr[j + 1])}

RECURSIVE AscendingFrom(_, _)
AscendingFrom(attr, left) ==
    IF left = {} THEN {<<>>}
    ELSE UNION {{<<i>> \o rest : rest \in AscendingFrom(attr, left \ {i})} :
                  i \in Minimal(attr, left)}

\* np.argsort(attr) with the default kind ("quicksort"), which is not a
\* stable sort: every index order that puts the values in ascending order.
ArgsortResults(attr) == AscendingFrom(attr, 0..(Len(attr) - 1))

\* The ascending order a stable sort produces: ties keep their index order.
RECURSIVE StableFrom(_, _)
StableFrom(attr, left) ==
    IF left = {} THEN <<>>
    ELSE LET m == Minimal(attr, left)
             i == CHOOSE x \in m : \A y \in m : x <= y
         IN  <<i>> \o StableFrom(attr, left \ {i})

StableArgsort(attr) == StableFrom(attr, 0..(Len(attr) - 1))

Reversed(s) == [i \in 1..Len(s) |-> s[Len(s) + 1 - i]]

Members(s) == {s[i] : i \in 1..Len(s)}

\* order[::-1][:k].  The code iterates over the selected indices (lines 55-57,
\* overwriting distinct columns) and tests membership (line 62): top_idx is
\* kept as the set of the selected indices.
TopOf(order, k) == Members(SubSeq(Reversed(order), 1, k))

TopIdxResults(attr) ==
    {TopOf(order, TopKCount(Len(attr))) : order \in ArgsortResults(attr)}

(***************************************************************************)
(* Perturbed matrices, lines 50-64 and 75-77.  A matrix is a sequence of   *)
(* rows; column j of the model is feature_names[j - 1] of the code.        *)
(***************************************************************************)
ColumnCount(X) == Len(X[1])

\* X.mean(numeric_only=True): the mean of every column over the rows of X.
ColumnMeans(X) ==
    [j \in 1..ColumnCount(X) |-> RMean([r \in 1..Len(X) |-> X[r][j]])]

\* frame[col] = means.get(col, 0.0) for every col in cols
Overwrite(frame, cols, means) ==
    [r \in 1..Len(frame) |->
        [j \in 1..Len(frame[r]) |-> IF j \in cols THEN means[j] ELSE frame[r][j]]]

\* RemovedFrames without the copy: the caller's matrix is overwritten.
RemovedFramesInPlace(X, top_idx, means) ==
    [caller |-> Overwrite(X, {i + 1 : i \in top_idx}, means),
     work |-> Overwrite(X, {i + 1 : i \in top_idx}, means)]

\* X_removed = X.copy(), then the top-k columns are overwritten in the copy.
\* caller is the caller's matrix afterwards, work the perturbed matrix.
RemovedFrames(X, top_idx, means) ==
    [caller |-> X,
     work |-> Overwrite(X, {i + 1 : i \in top_idx}, means)]

\* KeptFrames without the copy of line 60: X_kept is the caller's matrix.
KeptFramesInPlace(X, top_idx, means) ==
    [caller |-> Overwrite(X, {j \in 1..ColumnCount(X) : (j - 1) \notin top_idx}, means),
     work |-> Overwrite(X, {j \in 1..ColumnCount(X) : (j - 1) \notin top_idx}, means)]

\* KeptFrames with the membership test of line 62 inverted.
KeptFramesInverted(X, top_idx, means) ==
    [caller |-> X,
     work |-> Overwrite(X, {j \in 1..ColumnCount(X) : (j - 1) \in top_idx}, means)]

\* X_kept = X.copy(), then every column outside top_idx is overwritten.
KeptFrames(X, top_idx, means) ==
    [caller |-> X,
     work |-> Overwrite(X, {j \in 1..ColumnCount(X) : (j - 1) \notin top_idx}, means)]

\* Xi = X.copy(); Xi[col] = means.get(col, 0.0)
AblatedFrames(X, j, means) ==
    [caller |-> X, work |-> Overwrite(X, {j}, means)]

\* np.mean(np.abs(a - b))
MeanAbsDiff(a, b) == RMean([r \in 1..Len(a) |-> RAbs(RSub(a[r], b[r]))])

\* np.mean(np.clip(a - b, 0, None))
MeanPositiveDiff(a, b) == RMean([r \in 1..Len(a) |-> RMax(RZero, RSub(a[r], b[r]))])

\* The loop of lines 75-79 from column j on: the caller's matrix after the
\* loop and the impacts appended to those of the columns before j.
RECURSIVE ImpactLoop(_, _, _, _, _, _, _)
ImpactLoop(model, task_type, X, means, base_signal, j, done) ==
    IF j > ColumnCount(X) THEN [caller |-> X, impacts |-> done]
    ELSE CHOOSE after \in
            {ImpactLoop(model, task_type, f.caller, means, base_signal, j + 1,
                        Append(done,
                               MeanAbsDiff(base_signal,
                                           PredictSignal(model, f.work, task_type)))) :
                f \in {AblatedFrames(X, j, means)}} : TRUE

(***************************************************************************)
(* Scores.  A score is rational, except that a Pearson correlation is the  *)
(* quotient of a covariance and a square root:                             *)
(*   [form |-> "rational", q |-> q]             the number q               *)
(*   [form |-> "half_corr", sgn |-> s, sq |-> c] (s * sqrt(c) + 1) / 2,    *)
(*                                               c not a rational square   *)
(*   [form |-> "nan"]                            the NaN of a 0 / 0        *)
(***************************************************************************)
Rational(q) == [form |-> "rational", q |-> q]
NaN == [form |-> "nan"]

\* (corr + 1) / 2 with corr = cov / sqrt(va * vi), va and vi positive.
\* np.corrcoef of a vector without variance divides 0 by 0.
HalfCorr(cov, va, vi) ==
    IF RMul(va, vi) = RZero THEN NaN
    ELSE LET c == RDiv(RMul(cov, cov), RMul(va, vi))
             s == IF cov[1] < 0 THEN -1 ELSE IF cov[1] > 0 THEN 1 ELSE 0
         IN  IF IsSquare(c[1]) /\ IsSquare(c[2])
             THEN Rational(RDiv(RAdd(RMul(RInt(s), Rat(ISqrt(c[1]), ISqrt(c[2]))), ROne),
                                RInt(2)))
             ELSE [form |-> "half_corr", sgn |-> s, sq |-> c]

\* FaithfulnessScore without the test of the standard deviations.
FaithfulnessScoreUnguarded(attr, impacts) ==
    HalfCorr(RCov(attr, impacts), RVar(attr), RVar(impacts))

\* Lines 73-85.
FaithfulnessScore(attr, impacts) ==
    IF RVar(impacts) = RZero \/ RVar(attr) = RZero
    THEN Rational(RZero)
    ELSE HalfCorr(RCov(attr, impacts), RVar(attr), RVar(impacts))

\* MetricScore rejecting the metrics it does not know.
MetricScoreStrict(metric, attr, base_signal, removed_signal, kept_signal, impacts) ==
    CASE metric = "comprehensiveness" ->
            Rational(MeanPositiveDiff(base_signal, removed_signal))
      [] metric = "sufficiency" ->
            Rational(RSub(ROne, MeanAbsDiff(base_signal, kept_signal)))
      [] metric = "faithfulness_correlation" -> FaithfulnessScore(attr, impacts)
      [] OTHER -> [form |-> "rejected"]

\* Lines 66-87: the score before clipping.
MetricScore(metric, attr, base_signal, removed_signal, kept_signal, impacts) ==
    LET drop == MeanPositiveDiff(base_signal, removed_signal)
        retain_gap == MeanAbsDiff(base_signal, kept_signal)
    IN  CASE metric = "comprehensiveness" -> Rational(drop)
          [] metric = "sufficiency" -> Rational(RSub(ROne, retain_gap))
          [] metric = "faithfulness_correlation" -> FaithfulnessScore(attr, impacts)
          [] OTHER -> Rational(RMean(attr))

\* Clip01 without the clipping.
Unclipped(score) == score

\* float(np.clip(score, 0.0, 1.0))
Clip01(score) ==
    CASE score.form = "rational" -> Rational(RMax(RZero, RMin(ROne, score.q)))
      [] score.form = "half_corr" ->
           IF RLe(score.sq, ROne) THEN score
           ELSE Rational(IF score.sgn > 0 THEN ROne ELSE RZero)
      [] OTHER -> score

\* 0.0 <= score <= 1.0
InUnit(score) ==
    CASE score.form = "rational" -> RLe(RZero, score.q) /\ RLe(score.q, ROne)
      [] score.form = "half_corr" -> RLe(score.sq, ROne)
      [] OTHER -> FALSE

\* A zero-feature result that falls through to the default of an empty mean.
ZeroFeatureResultNaN == NaN

\* Line 37: return 0.0
ZeroFeatureResult == Rational(RZero)

(***************************************************************************)
(* compute_metric_score as a function of its arguments and of the indices  *)
(* the argsort of line 49 selects.                                         *)
(***************************************************************************)
Impacts(model, task_type, X, metric, means, base_signal) ==
    IF metric = "faithfulness_correlation"
    THEN ImpactLoop(model, task_type, X, means, base_signal, 1, <<>>).impacts
    ELSE <<>>

ScoreWith(model, task_type, X, attr, metric, top) ==
    CHOOSE out \in
        {Clip01(MetricScore(metric, attr, sig,
                            PredictSignal(model, RemovedFrames(X, top, mu).work, task_type),
                            PredictSignal(model, KeptFrames(X, top, mu).work, task_type),
                            Impacts(model, task_type, X, metric, mu, sig))) :
            mu \in {ColumnMeans(X)}, sig \in {PredictSignal(model, X, task_type)}} : TRUE

EvaluateWith(model, task_type, X, explainer, metric, top) ==
    IF ColumnCount(X) = 0 THEN ZeroFeatureResult
    ELSE ScoreWith(model, task_type, X,
                   EffectiveAttr(Attributions(model, ColumnCount(X)), explainer),
                   metric, top)

(***************************************************************************)
(* Inputs of the checked calls.                                            *)
(***************************************************************************)
Explainers == {"lime", "treeshap", "shap", "unknown_explainer"}
Metrics == {"comprehensiveness", "sufficiency", "faithfulness_correlation", "unknown_metric"}
TaskTypes == {"classification", "regression"}

\* The estimators of routes/models.py, an estimator with coefficients and no
\* predict_proba, one with neither importances nor coefficients, and one
\* with both.
ModelKinds ==
    {"RandomForestClassifier", "RandomForestRegressor", "LogisticRegression",
     "LinearRegression", "RidgeClassifier", "KNeighborsRegressor", "Hybrid"}

AttrVals == <<0, 1, 16>>

\* Importance vectors of length len: constant ones (q = 0, all zeros for
\* p = 0) and ramps.
AttrVec(len, p, q) == [j \in 1..len |-> AttrVals[((p + q * j) % 3) + 1]]

\* Coefficient rows carry alternating signs.
CoefRow(len, p, q) ==
    [j \in 1..len |-> IF j % 2 = 0 THEN -AttrVec(len, p, q)[j] ELSE AttrVec(len, p, q)[j]]

\* Prediction weights, the multiples of 4 in -4 * MaxVal..4 * MaxVal.
WVec(n, s) == [j \in 1..n |-> 4 * (((s + j) % (2 * MaxVal + 1)) - MaxVal)]

ModelOf(kind, n, len, p, q, s) ==
    [kind |-> kind,
     has_importances |-> kind \in {"RandomForestClassifier", "RandomForestRegressor", "Hybrid"},
     feature_importances_ |->
        IF kind \in {"RandomForestClassifier", "RandomForestRegressor", "Hybrid"}
        THEN AttrVec(len, p, q) ELSE <<>>,
     has_coef |-> kind \in {"LogisticRegression", "LinearRegression", "RidgeClassifier", "Hybrid"},
     coef_ndim |-> IF kind \in {"LogisticRegression", "RidgeClassifier"} THEN 2 ELSE 1,
     coef_ |->
        CASE kind = "LogisticRegression" -> <<CoefRow(len, p, q), CoefRow(len, p + 1, q)>>
          [] kind \in {"LinearRegression", "RidgeClassifier"} -> <<CoefRow(len, p, q)>>
          [] kind = "Hybrid" -> <<CoefRow(len, p + 1, q + 1)>>
          [] OTHER -> <<>>,
     has_proba |-> kind \in {"RandomForestClassifier", "LogisticRegression"},
     classifier |-> kind \in {"RandomForestClassifier", "LogisticRegression", "RidgeClassifier"},
     w |-> WVec(n, s),
     b |-> s % 2]

\* Feature matrices with n columns and one row or MaxRows rows of values in
\* 0..MaxVal.
Matrix(n, rows, a, c) ==
    [r \in 1..rows |-> [j \in 1..n |-> RInt((a * r + c * j) % (MaxVal + 1))]]

Matrices(n) ==
    {Matrix(n, rows, a, c) : rows \in {1, MaxRows}, a \in {0, MaxVal}, c \in {0, MaxVal}}

\* Calls that vary the model's importances and coefficients, their length
\* included, on one matrix.
AttrFocus(n) ==
    {[model |-> ModelOf(kind, n, len, p, q, 0), task_type |-> "regression",
      X |-> Matrix(n, MaxRows, 1, 1), explainer |-> e, metric |-> "unknown_metric"] :
        kind \in ModelKinds, len \in {l \in {n - 1, n, n + 1} : l >= 0},
        p \in 0..2, q \in 0..2, e \in Explainers}

\* Calls that vary the matrix, the task type and the prediction weights, for
\* uniform importances (u = 0) and a ramp (u = 1).
SignalFocus(n) ==
    {[model |-> ModelOf(kind, n, n, 1, u, u), task_type |-> t,
      X |-> x, explainer |-> e, metric |-> m] :
        kind \in {"RandomForestClassifier", "RidgeClassifier", "LinearRegression"},
        u \in 0..1,
        t \in TaskTypes, x \in Matrices(n), e \in Explainers, m \in Metrics}

Inputs(n) ==
    {c \in AttrFocus(n) \cup SignalFocus(n) :
        n = 0 \/ Representable(Attributions(c.model, n), c.explainer)}

(***************************************************************************)
(* State of one call of compute_metric_score.                              *)
(***************************************************************************)
VARIABLES
    pc,              \* the line the call is at
    model,           \* the trained model (shared with the caller)
    task_type, explainer, metric,
    X,               \* the caller's feature matrix
    feature_names,   \* list(X.columns), as 0-based feature indices
    base_attr, attr, top_idx, means,
    base_signal, X_removed, removed_signal, X_kept, kept_signal,
    impacts,         \* the per-feature impacts of lines 74-80
    score,           \* the score before clipping
    result,          \* the returned value
    attr_calls,      \* calls of _attributions
    predict_calls    \* calls of model.predict / model.predict_proba

inputs == <<model, task_type, explainer, metric>>
attrs == <<base_attr, attr, top_idx, means>>
signals == <<base_signal, X_removed, removed_signal, X_kept, kept_signal>>
outs == <<impacts, score, result>>
calls == <<attr_calls, predict_calls>>

(***************************************************************************)
(* State of the service around the engine: concurrent calls on one model   *)
(* and matrix, the run registry of store.py with the /runs requests in     *)
(* flight, and the batch jobs of routes/phase2.py.                         *)
(***************************************************************************)
VARIABLES
    frames,          \* the locals of each concurrent compute_metric_score call
    runs,            \* store.runs: run id -> record
    requests,        \* the /runs requests in flight, each with its position
    phase2_jobs,     \* store.phase2_jobs: job id -> job
    polls,           \* per job, the get_batch_run / list_batch_runs calls that found it running
    response         \* the last answer of a batch endpoint

engine == <<pc, explainer, metric, feature_names, attrs, signals, outs, calls>>
registry == <<runs, requests>>
batch == <<phase2_jobs, polls, response>>
service == <<frames, registry, batch>>
vars == <<pc, inputs, X, feature_names, attrs, signals, outs, calls, service>>

NoResponse == [status |-> "none"]

\* store.phase2_jobs before any request: a dict without entries, as the
\* other registries of InMemoryStore.
NoJobs == <<>>

\* The service parts at rest.
FramesIdle == frames = <<>>
RegistryIdle == runs = <<>> /\ requests = <<>>
BatchIdle == phase2_jobs = NoJobs /\ polls = <<>> /\ response = NoResponse

Unset == [form |-> "unset"]

Init ==
    \E n \in 0..MaxFeat : \E c \in Inputs(n) :
        /\ pc = "start"
        /\ model = c.model
        /\ task_type = c.task_type
        /\ explainer = c.explainer
        /\ metric = c.metric
        /\ X = c.X
        /\ feature_names = <<>>
        /\ base_attr = <<>> /\ attr = <<>> /\ top_idx = {} /\ means = <<>>
        /\ base_signal = <<>> /\ X_removed = <<>> /\ removed_signal = <<>>
        /\ X_kept = <<>> /\ kept_signal = <<>>
        /\ impacts = <<>> /\ score = Unset /\ result = Unset
        /\ attr_calls = 0 /\ predict_calls = 0
        /\ FramesIdle /\ RegistryIdle /\ BatchIdle

\* Lines 35-37: no columns, return 0.0.
NoFeatures ==
    /\ pc = "start"
    /\ ColumnCount(X) = 0
    /\ feature_names' = <<>>
    /\ result' = ZeroFeatureResult
    /\ pc' = "done"
    /\ UNCHANGED <<service, inputs, X, attrs, signals, impacts, score, calls>>

\* Lines 35-46: the attribution vector and its explainer transform.
Attribute ==
    /\ pc = "start"
    /\ ColumnCount(X) > 0
    /\ feature_names' = [i \in 1..ColumnCount(X) |-> i - 1]
    /\ base_attr' = Attributions(model, ColumnCount(X))
    /\ attr' = EffectiveAttr(base_attr', explainer)
    /\ attr_calls' = attr_calls + 1
    /\ pc' = "topk"
    /\ UNCHANGED <<service, inputs, X, top_idx, means, signals, outs, predict_calls>>

\* Lines 48-50: the top-k indices and the column means.
SelectTopK ==
    /\ pc = "topk"
    /\ top_idx' \in TopIdxResults(attr)
    /\ means' = ColumnMeans(X)
    /\ pc' = "base"
    /\ UNCHANGED <<service, inputs, X, feature_names, base_attr, attr, signals, outs, calls>>

\* Line 52.
BaseSignal ==
    /\ pc = "base"
    /\ base_signal' = PredictSignal(model, X, task_type)
    /\ predict_calls' = predict_calls + 1
    /\ pc' = "removed"
    /\ UNCHANGED <<service, inputs, X, feature_names, attrs, X_removed, removed_signal,
                   X_kept, kept_signal, outs, attr_calls>>

\* Lines 54-58.
Removed ==
    /\ pc = "removed"
    /\ LET f == RemovedFrames(X, top_idx, means)
       IN  /\ X' = f.caller
           /\ X_removed' = f.work
           /\ removed_signal' = PredictSignal(model, f.work, task_type)
    /\ predict_calls' = predict_calls + 1
    /\ pc' = "kept"
    /\ UNCHANGED <<service, inputs, feature_names, attrs, base_signal, X_kept, kept_signal,
                   outs, attr_calls>>

\* Lines 60-64.
Kept ==
    /\ pc = "kept"
    /\ LET f == KeptFrames(X, top_idx, means)
       IN  /\ X' = f.caller
           /\ X_kept' = f.work
           /\ kept_signal' = PredictSignal(model, f.work, task_type)
    /\ predict_calls' = predict_calls + 1
    /\ pc' = "metric"
    /\ UNCHANGED <<service, inputs, feature_names, attrs, base_signal, X_removed, removed_signal,
                   outs, attr_calls>>

\* Lines 66-87 for the metrics that need no further prediction.
ScoreDirect ==
    /\ pc = "metric"
    /\ metric # "faithfulness_correlation"
    /\ score' = MetricScore(metric, attr, base_signal, removed_signal, kept_signal, <<>>)
    /\ pc' = "clip"
    /\ UNCHANGED <<service, inputs, X, feature_names, attrs, signals, impacts, result, calls>>

\* Lines 73-85: one ablated matrix and one prediction per feature.
ScoreFaithfulness ==
    /\ pc = "metric"
    /\ metric = "faithfulness_correlation"
    /\ LET loop == ImpactLoop(model, task_type, X, means, base_signal, 1, <<>>)
       IN  /\ X' = loop.caller
           /\ impacts' = loop.impacts
           /\ score' = MetricScore(metric, attr, base_signal, removed_signal,
                                   kept_signal, loop.impacts)
    /\ predict_calls' = predict_calls + ColumnCount(X)
    /\ pc' = "clip"
    /\ UNCHANGED <<service, inputs, feature_names, attrs, signals, result, attr_calls>>

\* Line 89.
Return ==
    /\ pc = "clip"
    /\ result' = Clip01(score)
    /\ pc' = "done"
    /\ UNCHANGED <<service, inputs, X, feature_names, attrs, signals, impacts, score, calls>>

Next ==
    \/ NoFeatures
    \/ Attribute
    \/ SelectTopK
    \/ BaseSignal
    \/ Removed
    \/ Kept
    \/ ScoreDirect
    \/ ScoreFaithfulness
    \/ Return

Spec == Init /\ [][Next]_vars

(***************************************************************************)
(* Properties.                                                             *)
(***************************************************************************)
FeatureCount == ColumnCount(X)
Attributed == FeatureCount > 0 /\ pc # "start"
Selected == FeatureCount > 0 /\ pc \notin {"start", "topk"}
Perturbed == FeatureCount > 0 /\ pc \in {"metric", "clip", "done"}
Scored == FeatureCount > 0 /\ pc \in {"clip", "done"}
Returned == pc = "done"
KnownMetrics == {"comprehensiveness", "sufficiency", "faithfulness_correlation"}
Sign(i) == IF i < 0 THEN -1 ELSE IF i > 0 THEN 1 ELSE 0

\* C1: the value compute_metric_score returns is a number s with
\* 0.0 <= s <= 1.0, for every model, task type, explainer id, metric id
\* and feature matrix of the checked inputs.
ScoreInRange == Returned => InUnit(result)

\* A returned score that the clipping of line 89 brought into the range.
ScoreInRangeWitness ==
    /\ Returned
    /\ FeatureCount > 0
    /\ score.form = "rational"
    /\ ~InUnit(score)
    /\ InUnit(result)

\* C2: with zero columns the call returns exactly 0.0 and has neither
\* extracted attributions nor called the model's prediction operations.
ZeroColumnsScore ==
    (Returned /\ FeatureCount = 0) =>
        /\ result = Rational(RZero)
        /\ attr_calls = 0
        /\ predict_calls = 0
        /\ base_attr = <<>>
        /\ base_signal = <<>>

ZeroColumnsWitness ==
    /\ Returned
    /\ FeatureCount = 0
    /\ Len(X) = MaxRows
    /\ metric = "sufficiency"
    /\ model.has_importances
    /\ result = Rational(RZero)

\* C3: the selected top-k indices are the first k = max(1, min(3, n)) indices
\* of the reversed stable ascending sort of the feature indices by effective
\* attribution, so that among equal attributions the larger indices are
\* selected (for five equal attributions: 4, 3 and 2).
StableTopK ==
    Selected => top_idx = TopOf(StableArgsort(attr), TopKCount(Len(attr)))

\* C4: the selected top-k set has exactly min(3, n) distinct valid feature
\* indices, and for n <= 3 it is the full index set, the complement empty.
TopKBound ==
    Selected =>
        /\ Cardinality(top_idx) = (IF FeatureCount < 3 THEN FeatureCount ELSE 3)
        /\ top_idx \subseteq 0..(FeatureCount - 1)
        /\ FeatureCount <= 3 =>
              /\ top_idx = 0..(FeatureCount - 1)
              /\ {i \in 0..(FeatureCount - 1) : i \notin top_idx} = {}

\* More than three features with equal attributions, three selected.
TopKBoundWitness ==
    /\ Selected
    /\ FeatureCount > 3
    /\ RVar(attr) = RZero
    /\ Cardinality(top_idx) = 3

\* C5: the vector _attributions returns has one entry per feature, every
\* entry >= 0, and the entries sum to 1, on every path.
AttributionsNormalized ==
    Attributed =>
        /\ Len(base_attr) = FeatureCount
        /\ \A i \in 1..Len(base_attr) : RLe(RZero, base_attr[i])
        /\ RSum(base_attr) = ROne

\* Two-dimensional coefficients of a length other than the feature count.
AttributionsNormalizedWitness ==
    /\ Attributed
    /\ ~model.has_importances
    /\ model.has_coef
    /\ model.coef_ndim = 2
    /\ Len(model.coef_) = 2
    /\ Len(model.coef_[1]) < FeatureCount
    /\ \E i \in 1..FeatureCount : base_attr[i] # Rat(1, FeatureCount)

\* C6: for an explainer id other than "lime" and "treeshap" the effective
\* attribution vector is the vector of _attributions, entry for entry, and
\* the call returns what it returns for "shap" on the same model, matrix
\* and metric.
IdentityExplainer ==
    (FeatureCount > 0 /\ explainer \notin {"lime", "treeshap"}) =>
        /\ Attributed => attr = base_attr
        /\ Returned =>
              result = EvaluateWith(model, task_type, X, "shap", metric, top_idx)

IdentityExplainerWitness ==
    /\ Returned
    /\ FeatureCount > 2
    /\ explainer = "unknown_explainer"
    /\ metric = "faithfulness_correlation"
    /\ RVar(attr) # RZero
    /\ result # Rational(RZero)

\* The score s is (corr + 1) / 2 for the Pearson correlation corr of a and b:
\* (2 s - 1) * std(a) * std(b) is their covariance.
IsHalfCorrOf(s, a, b) ==
    LET cov == RCov(a, b)
        vv == RMul(RVar(a), RVar(b))
    IN  CASE s.form = "rational" ->
               LET c == RSub(RMul(RInt(2), s.q), ROne)
               IN  /\ RMul(RMul(c, c), vv) = RMul(cov, cov)
                   /\ Sign(c[1]) = Sign(cov[1])
          [] s.form = "half_corr" ->
               /\ RMul(s.sq, vv) = RMul(cov, cov)
               /\ s.sgn = Sign(cov[1])
          [] OTHER -> FALSE

\* C7: for faithfulness_correlation the score is exactly 0.0 when the impact
\* vector or the effective attribution vector has zero standard deviation
\* (a single feature included), and (corr + 1) / 2 of their Pearson
\* correlation otherwise.
FaithfulnessDegenerate ==
    (Scored /\ metric = "faithfulness_correlation") =>
        /\ (RVar(impacts) = RZero \/ RVar(attr) = RZero) =>
              /\ score = Rational(RZero)
              /\ Returned => result = Rational(RZero)
        /\ (RVar(impacts) # RZero /\ RVar(attr) # RZero) =>
              IsHalfCorrOf(score, attr, impacts)
        /\ FeatureCount = 1 => score = Rational(RZero)

\* Uniform attributions against impacts that differ.
FaithfulnessDegenerateWitness ==
    /\ Returned
    /\ metric = "faithfulness_correlation"
    /\ FeatureCount > 1
    /\ RVar(attr) = RZero
    /\ RVar(impacts) # RZero
    /\ result = Rational(RZero)

\* C8: with 1 to 3 columns the kept matrix is the original matrix,
\* kept_signal is base_signal row for row, the sufficiency score is exactly
\* 1.0, and every column of the removed matrix holds its column mean.
SufficiencySmall ==
    FeatureCount \in 1..3 =>
        /\ Perturbed =>
              /\ X_kept = X
              /\ kept_signal = base_signal
              /\ \A r \in 1..Len(X) : \A j \in 1..FeatureCount :
                    X_removed[r][j] = RMean([q \in 1..Len(X) |-> X[q][j]])
        /\ (Returned /\ metric = "sufficiency") => result = Rational(ROne)

SufficiencySmallWitness ==
    /\ Returned
    /\ FeatureCount = 3
    /\ metric = "sufficiency"
    /\ explainer = "lime"
    /\ X_removed # X
    /\ removed_signal # base_signal
    /\ result = Rational(ROne)

\* C9: a metric id other than the three known ones is not rejected: the call
\* goes on to return the mean of the effective attribution vector, clamped
\* to [0, 1]; nor is an unrecognized explainer id rejected.
DefaultMetric ==
    /\ (FeatureCount > 0 /\ metric \notin KnownMetrics) =>
          /\ Scored => score = Rational(RMean(attr))
          /\ Returned => result = Rational(RMax(RZero, RMin(ROne, RMean(attr))))
    /\ (FeatureCount > 0 /\ explainer \notin {"lime", "treeshap", "shap"}) =>
          /\ Scored => score.form \in {"rational", "half_corr"}
          /\ Returned => result.form \in {"rational", "half_corr"}

DefaultMetricWitness ==
    /\ Returned
    /\ FeatureCount > 1
    /\ metric = "unknown_metric"
    /\ explainer = "unknown_explainer"
    /\ result = Rational(Rat(1, FeatureCount))

\* C10: no step of the call changes the caller's feature matrix or the
\* model; the column means are those of the original matrix, and the
\* removed and kept matrices differ from it only where a column holds its
\* mean.
InputsUnchanged ==
    [][/\ X' = X
       /\ model' = model
       /\ (FeatureCount > 0 /\ pc' \notin {"start", "topk"}) => means' = ColumnMeans(X)
       /\ (FeatureCount > 0 /\ pc' \in {"metric", "clip", "done"}) =>
             \A r \in 1..Len(X) : \A j \in 1..FeatureCount :
                /\ X_removed'[r][j] = (IF (j - 1) \in top_idx' THEN means'[j] ELSE X[r][j])
                /\ X_kept'[r][j] = (IF (j - 1) \in top_idx' THEN X[r][j] ELSE means'[j])
      ]_vars

InputsUnchangedWitness ==
    /\ Returned
    /\ metric = "faithfulness_correlation"
    /\ X_removed # X
    /\ X_kept # X
    /\ X_kept # X_removed
    /\ RVar(impacts) # RZero

(***************************************************************************)
(* Concurrent calls of compute_metric_score, as the sync handler           *)
(* create_run issues them from the server's worker threads: the calls      *)
(* share the model object and the feature matrix (the variables model and  *)
(* X) and each has its own locals (frames[c]).  A step of a call is one of *)
(* the steps of the single call above, reading the shared objects as they  *)
(* are at that moment.                                                     *)
(***************************************************************************)
MaxCalls == 2

CallIds == 1..MaxCalls

\* The explainer and metric of a call.
CallOptions ==
    {<<"lime", "comprehensiveness">>, <<"shap", "faithfulness_correlation">>,
     <<"treeshap", "sufficiency">>}

\* The shared model and matrix, with no columns or with MaxFeat columns.
SharedInputs ==
    {c \in {[model |-> ModelOf(kind, n, n, 1, 1, 1),
             task_type |-> IF kind = "RandomForestClassifier"
                           THEN "classification" ELSE "regression",
             X |-> Matrix(n, MaxRows, 1, 1)] :
                kind \in {"RandomForestClassifier", "LinearRegression"},
                n \in {0, MaxFeat}} :
        \/ ColumnCount(c.X) = 0
        \/ \A o \in CallOptions :
              Representable(Attributions(c.model, ColumnCount(c.X)), o[1])}

\* The locals of a call that has not started; given is the matrix as it was
\* when the call was made.
NewFrame(given, e, m) ==
    [pc |-> "start", given |-> given, explainer |-> e, metric |-> m,
     base_attr |-> <<>>, attr |-> <<>>, top_idx |-> {}, means |-> <<>>,
     base_signal |-> <<>>, removed_signal |-> <<>>, kept_signal |-> <<>>,
     impacts |-> <<>>, score |-> Unset, result |-> Unset]

\* The variables of the single call, unused here.
EngineIdle ==
    /\ pc = "idle" /\ explainer = "" /\ metric = ""
    /\ feature_names = <<>>
    /\ base_attr = <<>> /\ attr = <<>> /\ top_idx = {} /\ means = <<>>
    /\ base_signal = <<>> /\ X_removed = <<>> /\ removed_signal = <<>>
    /\ X_kept = <<>> /\ kept_signal = <<>>
    /\ impacts = <<>> /\ score = Unset /\ result = Unset
    /\ attr_calls = 0 /\ predict_calls = 0

InitCalls ==
    \E c \in SharedInputs : \E o \in [CallIds -> CallOptions] :
        /\ model = c.model
        /\ task_type = c.task_type
        /\ X = c.X
        /\ frames = [i \in CallIds |-> NewFrame(c.X, o[i][1], o[i][2])]
        /\ EngineIdle /\ RegistryIdle /\ BatchIdle

shared == <<model, task_type, X>>
others == <<engine, registry, batch>>

\* Lines 35-37.
CallNoFeatures(c) ==
    /\ frames[c].pc = "start"
    /\ ColumnCount(X) = 0
    /\ frames' = [frames EXCEPT ![c] = [@ EXCEPT !.result = ZeroFeatureResult,
                                                 !.pc = "done"]]
    /\ UNCHANGED <<shared, others>>

\* Lines 35-46.
CallAttribute(c) ==
    /\ frames[c].pc = "start"
    /\ ColumnCount(X) > 0
    /\ LET b == Attributions(model, ColumnCount(X))
       IN  frames' = [frames EXCEPT ![c] =
                        [@ EXCEPT !.base_attr = b,
                                  !.attr = EffectiveAttr(b, frames[c].explainer),
                                  !.pc = "topk"]]
    /\ UNCHANGED <<shared, others>>

\* Lines 48-50.
CallSelectTopK(c) ==
    /\ frames[c].pc = "topk"
    /\ \E top \in TopIdxResults(frames[c].attr) :
          frames' = [frames EXCEPT ![c] = [@ EXCEPT !.top_idx = top,
                                                    !.means = ColumnMeans(X),
                                                    !.pc = "base"]]
    /\ UNCHANGED <<shared, others>>

\* Line 52.
CallBaseSignal(c) ==
    /\ frames[c].pc = "base"
    /\ frames' = [frames EXCEPT ![c] =
                    [@ EXCEPT !.base_signal = PredictSignal(model, X, task_type),
                              !.pc = "removed"]]
    /\ UNCHANGED <<shared, others>>

\* Lines 54-58.
CallRemoved(c) ==
    /\ frames[c].pc = "removed"
    /\ LET f == RemovedFrames(X, frames[c].top_idx, frames[c].means)
       IN  /\ X' = f.caller
           /\ frames' = [frames EXCEPT ![c] =
                           [@ EXCEPT !.removed_signal =
                                         PredictSignal(model, f.work, task_type),
                                     !.pc = "kept"]]
    /\ UNCHANGED <<model, task_type, others>>

\* Lines 60-64.
CallKept(c) ==
    /\ frames[c].pc = "kept"
    /\ LET f == KeptFrames(X, frames[c].top_idx, frames[c].means)
       IN  /\ X' = f.caller
           /\ frames' = [frames EXCEPT ![c] =
                           [@ EXCEPT !.kept_signal =
                                         PredictSignal(model, f.work, task_type),
                                     !.pc = "metric"]]
    /\ UNCHANGED <<model, task_type, others>>

\* Lines 66-87, with the loop of lines 74-79 for faithfulness_correlation.
CallScore(c) ==
    /\ frames[c].pc = "metric"
    /\ LET fr == frames[c]
           loop == IF fr.metric = "faithfulness_correlation"
                   THEN ImpactLoop(model, task_type, X, fr.means, fr.base_signal, 1, <<>>)
                   ELSE [caller |-> X, impacts |-> <<>>]
       IN  /\ X' = loop.caller
           /\ frames' = [frames EXCEPT ![c] =
                           [@ EXCEPT !.impacts = loop.impacts,
                                     !.score = MetricScore(fr.metric, fr.attr,
                                                           fr.base_signal,
                                                           fr.removed_signal,
                                                           fr.kept_signal, loop.impacts),
                                     !.pc = "clip"]]
    /\ UNCHANGED <<model, task_type, others>>

\* Line 89.
CallReturn(c) ==
    /\ frames[c].pc = "clip"
    /\ frames' = [frames EXCEPT ![c] = [@ EXCEPT !.result = Clip01(frames[c].score),
                                                 !.pc = "done"]]
    /\ UNCHANGED <<shared, others>>

NextCalls ==
    \E c \in CallIds :
        \/ CallNoFeatures(c)
        \/ CallAttribute(c)
        \/ CallSelectTopK(c)
        \/ CallBaseSignal(c)
        \/ CallRemoved(c)
        \/ CallKept(c)
        \/ CallScore(c)
        \/ CallReturn(c)

SpecCalls == InitCalls /\ [][NextCalls]_vars

\* C11: in every interleaving of the calls that share a model and a matrix,
\* a call that has returned has returned the score the same call returns on
\* its own for the matrix it was given (and the indices it selected are
\* indices it may select on its own), and the shared matrix is still the
\* matrix the calls were given.
CallsIsolated ==
    \A c \in CallIds :
        /\ X = frames[c].given
        /\ frames[c].pc = "done" =>
              /\ ColumnCount(frames[c].given) > 0 =>
                    frames[c].top_idx \in
                        TopIdxResults(EffectiveAttr(
                            Attributions(model, ColumnCount(frames[c].given)),
                            frames[c].explainer))
              /\ frames[c].result =
                    EvaluateWith(model, task_type, frames[c].given,
                                 frames[c].explainer, frames[c].metric,
                                 frames[c].top_idx)

\* Two calls with different metrics have returned different scores, and the
\* second started perturbing before the first had finished.
CallsIsolatedWitness ==
    /\ ColumnCount(X) > 2
    /\ frames[1].pc = "done" /\ frames[2].pc = "done"
    /\ frames[1].metric # frames[2].metric
    /\ frames[1].result # frames[2].result
    /\ frames[1].result # Rational(RZero)
    /\ frames[2].result # Rational(RZero)

(***************************************************************************)
(* The single call again (Spec): the source of the attribution vector.     *)
(***************************************************************************)
\* The raw vector in the order of precedence: importances, else the
\* absolute coefficients (their mean over the rows when two-dimensional),
\* else ones.  Its length and its j-th value.
PriorityRawLen ==
    IF model.has_importances THEN Len(model.feature_importances_)
    ELSE IF model.has_coef THEN Len(model.coef_[1])
    ELSE FeatureCount

PriorityRawAt(j) ==
    IF model.has_importances THEN RInt(model.feature_importances_[j])
    ELSE IF model.has_coef
         THEN (IF model.coef_ndim > 1
               THEN RDiv(RSum([r \in 1..Len(model.coef_) |->
                                  RInt(IAbs(model.coef_[r][j]))]),
                         RInt(Len(model.coef_)))
               ELSE RInt(IAbs(model.coef_[1][j])))
         ELSE ROne

\* The i-th value of the raw vector cut to the first n values, or continued
\* by its own values from the start.
PriorityFittedAt(i) ==
    PriorityRawAt(IF i <= PriorityRawLen THEN i ELSE ((i - 1) % PriorityRawLen) + 1)

\* C12: the vector of _attributions is the normalization of the raw vector
\* taken from the importances when the model has them (also when it has
\* coefficients), else from the absolute coefficients (averaged over the rows
\* when two-dimensional), else of all ones, after the raw vector was
\* truncated to the feature count or continued cyclically from its start.
AttributionPriority ==
    (Attributed /\ PriorityRawLen > 0) =>
        /\ Len(base_attr) = FeatureCount
        /\ \A total \in {RSum([i \in 1..FeatureCount |-> RAbs(PriorityFittedAt(i))])} :
              total # RZero =>
                  \A i \in 1..FeatureCount :
                      RMul(base_attr[i], total) = RAbs(PriorityFittedAt(i))

\* A model with importances and coefficients, the importances one short of
\* the feature count: the last attribution repeats the first.
AttributionPriorityWitness ==
    /\ Attributed
    /\ model.has_importances /\ model.has_coef
    /\ FeatureCount > 2
    /\ Len(model.feature_importances_) = FeatureCount - 1
    /\ base_attr[FeatureCount] = base_attr[1]
    /\ base_attr[1] # base_attr[2]
    /\ base_attr[1] # RZero

(***************************************************************************)
(* The run registry: store.runs, InMemoryStore.next_id, and the handlers   *)
(* create_run and clear_runs of routes/runs.py.  The handlers are sync     *)
(* functions, which the server runs on worker threads: requests interleave *)
(* between the statements of a handler.  The store holds one dataset and   *)
(* one model trained on it (the variables model, task_type and X).         *)
(***************************************************************************)
MaxRequests == 3

RequestIds == 1..MaxRequests

\* The decimal digits of n, most significant first.
RECURSIVE Digits(_)
Digits(n) == IF n < 10 THEN <<n>> ELSE Append(Digits(n \div 10), n % 10)

\* format(n, "03d"): at least three digits, padded with zeros on the left.
RECURSIVE ZeroPadded(_, _)
ZeroPadded(digits, width) ==
    IF Len(digits) >= width THEN digits ELSE ZeroPadded(<<0>> \o digits, width)

\* store.py line 55: f"{prefix}_{len(existing) + 1:03d}"
NextId(prefix, existing) ==
    <<prefix, ZeroPadded(Digits(Cardinality(DOMAIN existing) + 1), 3)>>

\* The dict d after d[key] = value.
Put(d, key, value) ==
    [k \in (DOMAIN d) \cup {key} |-> IF k = key THEN value ELSE d[k]]

StoredDataset == "dataset_001"
StoredModel == "model_001"

\* Request bodies: runs on the stored dataset and model, and one on a
\* dataset the store does not hold.
RunPayloads ==
    {[dataset_id |-> d, model_id |-> StoredModel, explainer |-> o[1], metric |-> o[2]] :
        d \in {StoredDataset}, o \in {<<"lime", "comprehensiveness">>, <<"shap", "sufficiency">>}}
    \cup
    {[dataset_id |-> "dataset_404", model_id |-> StoredModel,
      explainer |-> "shap", metric |-> "sufficiency"]}

NewRequests ==
    {[kind |-> "create_run", pc |-> "start", payload |-> p, run_id |-> <<>>,
      score |-> Unset, answer |-> NoResponse] : p \in RunPayloads}
    \cup
    {[kind |-> "clear_runs", pc |-> "start", payload |-> <<>>, run_id |-> <<>>,
      score |-> Unset, answer |-> NoResponse]}

InitRuns ==
    /\ model = ModelOf("RandomForestClassifier", 2, 2, 1, 1, 1)
    /\ task_type = "classification"
    /\ X = Matrix(2, MaxRows, 1, 1)
    /\ runs = <<>>
    /\ requests \in [RequestIds -> NewRequests]
    /\ EngineIdle /\ FramesIdle /\ BatchIdle

\* create_run, lines 118-131: a lookup fails.
CreateRunReject(r) ==
    /\ requests[r].kind = "create_run"
    /\ requests[r].pc = "start"
    /\ requests[r].payload.dataset_id # StoredDataset
    /\ requests' = [requests EXCEPT ![r] =
                      [@ EXCEPT !.answer = [status |-> "404"], !.pc = "done"]]
    /\ UNCHANGED <<runs, shared, engine, frames, batch>>

\* create_run, lines 118-140: the lookups succeed, the matrix has numeric
\* columns, and the run id is taken from the size of store.runs.
CreateRunNextId(r) ==
    /\ requests[r].kind = "create_run"
    /\ requests[r].pc = "start"
    /\ requests[r].payload.dataset_id = StoredDataset
    /\ requests[r].payload.model_id = StoredModel
    /\ ColumnCount(X) > 0
    /\ requests' = [requests EXCEPT ![r] =
                      [@ EXCEPT !.run_id = NextId("run", runs), !.pc = "score"]]
    /\ UNCHANGED <<runs, shared, engine, frames, batch>>

\* create_run, lines 141-147: the call of compute_metric_score.
CreateRunScore(r) ==
    /\ requests[r].pc = "score"
    /\ \E top \in TopIdxResults(EffectiveAttr(Attributions(model, ColumnCount(X)),
                                              requests[r].payload.explainer)) :
          requests' = [requests EXCEPT ![r] =
                         [@ EXCEPT !.score =
                                       EvaluateWith(model, task_type, X,
                                                    requests[r].payload.explainer,
                                                    requests[r].payload.metric, top),
                                   !.pc = "write"]]
    /\ UNCHANGED <<runs, shared, engine, frames, batch>>

\* create_run, lines 148-172: the record is stored under the run id
\* (created_at, the time of the request, is the request's number).
CreateRunWrite(r) ==
    /\ requests[r].pc = "write"
    /\ runs' = Put(runs, requests[r].run_id,
                   [run_id |-> requests[r].run_id,
                    dataset_id |-> requests[r].payload.dataset_id,
                    model_id |-> requests[r].payload.model_id,
                    explainer |-> requests[r].payload.explainer,
                    metric |-> requests[r].payload.metric,
                    score |-> requests[r].score,
                    created_at |-> r])
    /\ requests' = [requests EXCEPT ![r] =
                      [@ EXCEPT !.answer = [status |-> "completed",
                                            run_id |-> requests[r].run_id],
                                !.pc = "done"]]
    /\ UNCHANGED <<shared, engine, frames, batch>>

\* clear_runs, line 177: cleared = len(store.runs)
ClearRunsCount(r) ==
    /\ requests[r].kind = "clear_runs"
    /\ requests[r].pc = "start"
    /\ requests' = [requests EXCEPT ![r] =
                      [@ EXCEPT !.answer = [cleared |-> Cardinality(DOMAIN runs)],
                                !.pc = "clear"]]
    /\ UNCHANGED <<runs, shared, engine, frames, batch>>

\* clear_runs, lines 178-179: store.runs.clear()
ClearRunsClear(r) ==
    /\ requests[r].pc = "clear"
    /\ runs' = <<>>
    /\ requests' = [requests EXCEPT ![r].pc = "done"]
    /\ UNCHANGED <<shared, engine, frames, batch>>

NextRuns ==
    \E r \in RequestIds :
        \/ CreateRunReject(r)
        \/ CreateRunNextId(r)
        \/ CreateRunScore(r)
        \/ CreateRunWrite(r)
        \/ ClearRunsCount(r)
        \/ ClearRunsClear(r)

SpecRuns == InitRuns /\ [][NextRuns]_vars

\* C13: in every interleaving of create_run and clear_runs requests, the run
\* id a create_run took from next_id is not a key of store.runs when the
\* record is written: the write adds one record and replaces none.
RunIdsUnique ==
    [][\A r \in RequestIds :
          (requests[r].pc = "write" /\ requests'[r].pc = "done") =>
              /\ requests[r].run_id \notin DOMAIN runs
              /\ Cardinality(DOMAIN runs') = Cardinality(DOMAIN runs) + 1
              /\ \A k \in DOMAIN runs : runs'[k] = runs[k]
      ]_vars

(***************************************************************************)
(* Batch jobs: routes/phase2.py.  A request is handled from its first      *)
(* statement to its answer before the next one starts (the claims about    *)
(* jobs speak of sequences of requests).  Of the timestamps only the order *)
(* of created_at is kept, as the number of jobs at creation; updated_at is *)
(* left out.                                                               *)
(***************************************************************************)
MaxJobs == 2
MaxExplainers == 7
MaxMetrics == 3

StoredManifest == "manifest_001"

ExplainerPool == <<"lime", "shap", "treeshap", "saliency", "gradcam", "ig">>
MetricPool == <<"comprehensiveness", "sufficiency", "faithfulness_correlation">>

\* len(name)
NameLength(name) ==
    CASE name = "lime" -> 4
      [] name = "shap" -> 4
      [] name = "treeshap" -> 8
      [] name = "saliency" -> 8
      [] name = "gradcam" -> 7
      [] name = "ig" -> 2
      [] name = "comprehensiveness" -> 17
      [] name = "sufficiency" -> 11
      [] name = "faithfulness_correlation" -> 24

\* A list of n names.
Names(pool, n) == [i \in 1..n |-> pool[((i - 1) % Len(pool)) + 1]]

\* The lengths of the two lists of a request body (explainers, metrics):
\* every pair of lengths, an empty list included, and a few of them.
AllLengths == (0..MaxExplainers) \X (0..MaxMetrics)
FewLengths ==
    {<<1, 1>>, <<MaxExplainers, 1>>, <<MaxExplainers, MaxMetrics>>, <<0, 1>>, <<1, 0>>}

\* Request bodies for the stored model and manifest with lists of the given
\* lengths, and bodies naming a model or a manifest the store does not hold.
BatchPayloads(lengths) ==
    {[model_id |-> StoredModel, manifest_id |-> StoredManifest,
      explainers |-> Names(ExplainerPool, n[1]), metrics |-> Names(MetricPool, n[2])] :
        n \in lengths}
    \cup
    {[model_id |-> "model_404", manifest_id |-> StoredManifest,
      explainers |-> <<"lime">>, metrics |-> <<"sufficiency">>],
     [model_id |-> StoredModel, manifest_id |-> "manifest_404",
      explainers |-> <<"lime">>, metrics |-> <<"sufficiency">>]}

\* The job ids a request may name: those of the first MaxJobs jobs and one
\* more.
JobIdOf(n) == <<"job", ZeroPadded(Digits(n), 3)>>
JobIds == {JobIdOf(n) : n \in 1..(MaxJobs + 1)}

IMax(a, b) == IF a >= b THEN a ELSE b
IMin(a, b) == IF a <= b THEN a ELSE b

\* _advance_job without the cap of line 39 at the total.
AdvanceJobUncapped(job) ==
    IF job.status \in {"completed", "cancelled"} THEN job
    ELSE LET step == IMax(1, job.progress.total \div 3)
             done == job.progress.completed + step
         IN  [job EXCEPT !.progress.completed = done,
                         !.status = IF done >= job.progress.total THEN "completed" ELSE @]

\* _advance_job with a step of one item whatever the total.
AdvanceJobByOne(job) ==
    IF job.status \in {"completed", "cancelled"} THEN job
    ELSE LET done == IMin(job.progress.total, job.progress.completed + 1)
         IN  [job EXCEPT !.progress.completed = done,
                         !.status = IF done >= job.progress.total THEN "completed" ELSE @]

\* _advance_job without the early return of lines 33-34.
AdvanceJobAlways(job) ==
    LET step == IMax(1, job.progress.total \div 3)
        done == IMin(job.progress.total, job.progress.completed + step)
    IN  [job EXCEPT !.progress.completed = done,
                    !.status = IF done >= job.progress.total THEN "completed" ELSE @]

\* _advance_job, lines 32-44.
AdvanceJob(job) ==
    IF job.status \in {"completed", "cancelled"} THEN job
    ELSE LET step == IMax(1, job.progress.total \div 3)
             done == IMin(job.progress.total, job.progress.completed + step)
         IN  [job EXCEPT !.progress.completed = done,
                         !.status = IF done >= job.progress.total THEN "completed" ELSE @]

\* Lines 96-98 and 107-109: the items of a completed job are completed.
FinishItems(job) ==
    IF job.status = "completed"
    THEN [job EXCEPT !.results = [i \in 1..Len(job.results) |->
                                     [job.results[i] EXCEPT !.status = "completed"]]]
    ELSE job

\* _advance_job and the loop over the items, as get_batch_run and
\* list_batch_runs apply them to a job.
Polled(job) == FinishItems(AdvanceJob(job))

\* Lines 66-70: one item per explainer and metric.
ItemScore(e, m) ==
    Rat((NameLength(e) * 7 + NameLength(m) * 11) % 100, 100)

QueuedItems(explainers, metrics) ==
    [i \in 1..(Len(explainers) * Len(metrics)) |->
        LET e == explainers[((i - 1) \div Len(metrics)) + 1]
            m == metrics[((i - 1) % Len(metrics)) + 1]
        IN  [explainer |-> e, metric |-> m, score |-> ItemScore(e, m), status |-> "queued"]]

\* Lines 61-62 and 72-81.
NewJob(job_id, payload, created_at) ==
    [job_id |-> job_id, model_id |-> payload.model_id, manifest_id |-> payload.manifest_id,
     status |-> "running",
     progress |-> [completed |-> 0,
                   total |-> Len(payload.explainers) * Len(payload.metrics)],
     created_at |-> created_at,
     results |-> QueuedItems(payload.explainers, payload.metrics)]

\* The polls that found the job running, one more after a poll of job.
Counted(count, job) == IF job.status = "running" THEN count + 1 ELSE count

InitJobs ==
    /\ model = ModelOf("RandomForestClassifier", 2, 2, 1, 1, 1)
    /\ task_type = "classification"
    /\ X = Matrix(2, MaxRows, 1, 1)
    /\ phase2_jobs = NoJobs
    /\ polls = <<>>
    /\ response = NoResponse
    /\ EngineIdle /\ FramesIdle /\ RegistryIdle

\* create_batch_run, lines 49-59: the request is refused.
CreateBatchRunRefused(lengths) ==
    /\ \E p \in BatchPayloads(lengths) :
          /\ \/ p.model_id # StoredModel
             \/ p.manifest_id # StoredManifest
             \/ Len(p.explainers) = 0
             \/ Len(p.metrics) = 0
          /\ response' =
                [op |-> "create",
                 status |-> IF p.model_id # StoredModel \/ p.manifest_id # StoredManifest
                            THEN "404" ELSE "400"]
    /\ UNCHANGED <<phase2_jobs, polls, shared, engine, frames, registry>>

\* create_batch_run, lines 49-88, while the store holds fewer than limit jobs.
CreateBatchRun(limit, lengths) ==
    /\ Cardinality(DOMAIN phase2_jobs) < limit
    /\ \E p \in BatchPayloads(lengths) :
          /\ p.model_id = StoredModel
          /\ p.manifest_id = StoredManifest
          /\ Len(p.explainers) > 0
          /\ Len(p.metrics) > 0
          /\ LET job_id == NextId("job", phase2_jobs)
                 job == NewJob(job_id, p, Cardinality(DOMAIN phase2_jobs))
             IN  /\ phase2_jobs' = Put(phase2_jobs, job_id, job)
                 /\ polls' = Put(polls, job_id, 0)
                 /\ response' = [op |-> "create", status |-> "running"]
    /\ UNCHANGED <<shared, engine, frames, registry>>

\* get_batch_run, lines 93-95: no such job.
GetBatchRunMissing ==
    /\ \E j \in JobIds :
          /\ j \notin DOMAIN phase2_jobs
          /\ response' = [op |-> "get", status |-> "404"]
    /\ UNCHANGED <<phase2_jobs, polls, shared, engine, frames, registry>>

\* get_batch_run, lines 93-100.
GetBatchRun ==
    /\ \E j \in DOMAIN phase2_jobs :
          /\ phase2_jobs' = [phase2_jobs EXCEPT ![j] = Polled(@)]
          /\ polls' = [polls EXCEPT ![j] = Counted(@, phase2_jobs[j])]
          /\ response' = [op |-> "get", status |-> phase2_jobs'[j].status]
    /\ UNCHANGED <<shared, engine, frames, registry>>

\* list_batch_runs, lines 105-111.
ListBatchRuns ==
    /\ phase2_jobs' = [j \in DOMAIN phase2_jobs |-> Polled(phase2_jobs[j])]
    /\ polls' = [j \in DOMAIN phase2_jobs |-> Counted(polls[j], phase2_jobs[j])]
    /\ response' = [op |-> "list", status |-> "200"]
    /\ UNCHANGED <<shared, engine, frames, registry>>

\* cancel_batch_run, lines 116-118: no such job.
CancelBatchRunMissing ==
    /\ \E j \in JobIds :
          /\ j \notin DOMAIN phase2_jobs
          /\ response' = [op |-> "cancel", status |-> "404", job_id |-> j]
    /\ UNCHANGED <<phase2_jobs, polls, shared, engine, frames, registry>>

\* cancel_batch_run, lines 116-122: the job has ended.
CancelBatchRunEnded ==
    /\ \E j \in DOMAIN phase2_jobs :
          /\ phase2_jobs[j].status \in {"completed", "cancelled"}
          /\ response' = [op |-> "cancel",
                          status |-> IF phase2_jobs[j].status = "completed"
                                     THEN "already_completed" ELSE "already_cancelled",
                          job_id |-> j]
    /\ UNCHANGED <<phase2_jobs, polls, shared, engine, frames, registry>>

\* cancel_batch_run, lines 116-129.
CancelBatchRun ==
    /\ \E j \in DOMAIN phase2_jobs :
          /\ phase2_jobs[j].status \notin {"completed", "cancelled"}
          /\ phase2_jobs' =
                [phase2_jobs EXCEPT ![j] =
                    [@ EXCEPT !.status = "cancelled",
                              !.results =
                                  [i \in 1..Len(@) |->
                                      IF @[i].status # "completed"
                                      THEN [@[i] EXCEPT !.status = "cancelled"]
                                      ELSE @[i]]]]
          /\ response' = [op |-> "cancel", status |-> "cancelled", job_id |-> j]
    /\ UNCHANGED <<polls, shared, engine, frames, registry>>

\* Up to MaxJobs jobs.
NextJobs ==
    \/ CreateBatchRunRefused(FewLengths)
    \/ CreateBatchRun(MaxJobs, FewLengths)
    \/ GetBatchRunMissing
    \/ GetBatchRun
    \/ ListBatchRuns
    \/ CancelBatchRunMissing
    \/ CancelBatchRunEnded
    \/ CancelBatchRun

SpecJobs == InitJobs /\ [][NextJobs]_vars

\* One job, of every size.
NextPolling ==
    \/ CreateBatchRunRefused(AllLengths)
    \/ CreateBatchRun(1, AllLengths)
    \/ GetBatchRunMissing
    \/ GetBatchRun
    \/ ListBatchRuns
    \/ CancelBatchRunMissing
    \/ CancelBatchRunEnded
    \/ CancelBatchRun

SpecPolling == InitJobs /\ [][NextPolling]_vars

ItemStatuses(job) == [i \in 1..Len(job.results) |-> job.results[i].status]

====
